---- MODULE Spec2Model ----
(***************************************************************************)
(* A model of AptosContainer (src/src/aptos-container/src/lib.rs): the     *)
(* command channel (run_command), the lazily initialised account pool      *)
(* (lazy_init_accounts, run) and the contract deployment cache             *)
(* (copy_contracts, upload_contracts).                                     *)
(*                                                                         *)
(* Strings are sequences of one-character strings, so that trim, split,    *)
(* format! and contains are computed as the code computes them.            *)
(* Every .await of the code is a step boundary: one action per await.      *)
(* tokio's Mutex and RwLock hand the lock out in FIFO order; each lock is  *)
(* modelled by its holder(s) and its queue of waiters.                     *)
(***************************************************************************)
EXTENDS Integers, Sequences, FiniteSets, TLC

\* ------------------------------------------------------------------ bounds
NumTasks == 2
MaxCalls == 2

Tasks == 1..NumTasks

\* ------------------------------------------------------------ string helpers
Range(s) == {s[i] : i \in DOMAIN s}

Count(x, s) == Cardinality({i \in DOMAIN s : s[i] = x})

IsDistinct(s) == \A i, j \in DOMAIN s : s[i] = s[j] => i = j

Min(a, b) == IF a <= b THEN a ELSE b

IsWhitespace(c) == c \in {" ", "\n"}

RECURSIVE TrimStart(_)
TrimStart(s) ==
    IF s # <<>> /\ IsWhitespace(Head(s)) THEN TrimStart(Tail(s)) ELSE s

RECURSIVE TrimEnd(_)
TrimEnd(s) ==
    IF s # <<>> /\ IsWhitespace(s[Len(s)])
    THEN TrimEnd(SubSeq(s, 1, Len(s) - 1))
    ELSE s

\* str::trim
Trim(s) == TrimEnd(TrimStart(s))

\* str::split(sep) for a one-character separator: never an empty list
RECURSIVE Split(_, _)
Split(s, sep) ==
    IF \E i \in DOMAIN s : s[i] = sep
    THEN LET i == CHOOSE k \in DOMAIN s :
                    s[k] = sep /\ \A j \in 1..(k - 1) : s[j] # sep
         IN  <<SubSeq(s, 1, i - 1)>> \o Split(SubSeq(s, i + 1, Len(s)), sep)
    ELSE <<s>>

\* str::contains
Contains(s, pat) ==
    \E i \in 0..(Len(s) - Len(pat)) : SubSeq(s, i + 1, i + Len(pat)) = pat

\* ------------------------------------------------------------ command channel
\* What the container answers to one exec: exit is what exec.exit_code()
\* yields, NoExit standing for None (the command has not exited yet when it
\* is inspected), otherwise Some(exit).
NoExit == -1
ExitCodes == {NoExit, 0, 1}

Stderrs == {<<>>, <<"e">>}

Outcome(exit, stdout, stderr) ==
    [exit |-> exit, stdout |-> stdout, stderr |-> stderr]

\* run_command, lines 53-74: Some(code) is mapped to Err(DockerExecFailed(code))
\* whatever the code is, and None lets the call go on to read both streams.
RunCommand(o) ==
    IF o.exit # NoExit
    THEN [ok |-> FALSE, code |-> o.exit, stdout |-> <<>>, stderr |-> <<>>]
    ELSE [ok |-> TRUE, code |-> NoExit, stdout |-> o.stdout, stderr |-> o.stderr]

\* ------------------------------------------------------------ account roster
\* What `echo $ACCOUNTS` may print.
LargestRoster == <<"a", ",", "b", ",", "c", "\n">>

RosterOutputs == {<<>>, <<"\n">>, <<"a", ",", "a", "\n">>, LargestRoster}

\* The streams of a command that has exited are never read.
RosterOutcomes ==
    {Outcome(NoExit, o, <<>>) : o \in RosterOutputs}
        \cup {Outcome(0, LargestRoster, <<>>),
              Outcome(1, <<>>, <<"e">>)}

\* lines 97-101
ParseAccounts(stdout) == Split(Trim(stdout), ",")

\* the number_of_accounts a caller may pass: nothing, or up to the whole of
\* the largest roster
RequestSizes == 0..Len(ParseAccounts(LargestRoster))

\* the fixed list of an external node (config.accounts)
FixedAccounts == << <<"x">>, <<"y">> >>

None == [some |-> FALSE, val |-> <<>>]
Some(v) == [some |-> TRUE, val |-> v]

\* ------------------------------------------------------------ contract source
\* BASE64_STANDARD.encode: bytes are 0..255, an encoded character is its
\* index 0..63 in the alphabet, Pad (64) is '='.
Pad == 64

RECURSIVE Base64Encode(_)
Base64Encode(b) ==
    IF Len(b) = 0 THEN <<>>
    ELSE IF Len(b) = 1
    THEN <<b[1] \div 4, (b[1] % 4) * 16, Pad, Pad>>
    ELSE IF Len(b) = 2
    THEN <<b[1] \div 4, (b[1] % 4) * 16 + b[2] \div 16, (b[2] % 16) * 4, Pad>>
    ELSE <<b[1] \div 4, (b[1] % 4) * 16 + b[2] \div 16,
           (b[2] % 16) * 4 + b[3] \div 64, b[3] % 64>>
             \o Base64Encode(SubSeq(b, 4, Len(b)))

\* CONTENT_MAX_CHARS, line 45: 120000 = 4 * 30000 in the source, scaled here
\* to one base64 quantum so that a file of a few bytes spans several chunks.
CONTENT_MAX_CHARS == 4

\* slice::chunks(n)
RECURSIVE Chunks(_, _)
Chunks(s, n) ==
    IF Len(s) = 0 THEN <<>>
    ELSE IF Len(s) <= n THEN <<s>>
    ELSE <<SubSeq(s, 1, n)>> \o Chunks(SubSeq(s, n + 1, Len(s)), n)

\* `base64 --decode`: every whole quantum of four characters gives up to
\* three bytes; a trailing part of a quantum gives the bytes its bits fill
RECURSIVE Base64Decode(_)
Base64Decode(c) ==
    IF Len(c) < 2 THEN <<>>
    ELSE LET b1 == c[1] * 4 + c[2] \div 16
             b2 == (c[2] % 16) * 16 + c[3] \div 4
             b3 == (c[3] % 4) * 64 + c[4]
         IN  IF c[2] = Pad THEN <<>>
             ELSE IF Len(c) = 2 \/ c[3] = Pad THEN <<b1>>
             ELSE IF Len(c) = 3 \/ c[4] = Pad THEN <<b1, b2>>
             ELSE <<b1, b2, b3>> \o Base64Decode(SubSeq(c, 5, Len(c)))

\* the local source trees the callers use
Dirs == {<<"p">>, <<"q">>}

VARIABLE files          \* the files of each local tree, as (relative path, content)

SourceTrees ==
    [d \in Dirs |->
        IF d = <<"p">>
        THEN << [path |-> <<"m">>, content |-> <<77, 111, 118, 101>>] >>
        ELSE << [path |-> <<"a">>, content |-> <<255>>],
                [path |-> <<"b">>, content |-> <<>>] >>]

\* get_files(local_dir, FILTER_PATTERN)
DirFiles(d) == files[d]

\* lines 128-138: the append commands of one file, in chunk order
FileCommands(f) ==
    LET chunks == Chunks(Base64Encode(f.content), CONTENT_MAX_CHARS)
    IN  [i \in 1..Len(chunks) |-> [dest |-> f.path, chunk |-> chunks[i]]]

\* lines 122-142: the append commands of a whole tree, in the order issued
RECURSIVE TreeCommands(_)
TreeCommands(fs) ==
    IF fs = <<>> THEN <<>>
    ELSE FileCommands(Head(fs)) \o TreeCommands(Tail(fs))

ChunkCommands(d) == TreeCommands(DirFiles(d))

\* The files of a staging directory: a set of (path, content), a path that
\* does not occur being absent.
Exists(dir, path) == \E f \in dir : f.path = path

Read(dir, path) == (CHOOSE f \in dir : f.path = path).content

\* `... > path`
Write(dir, path, bytes) ==
    {f \in dir : f.path # path} \cup {[path |-> path, content |-> bytes]}

\* `... >> path`
AppendTo(dir, path, bytes) ==
    Write(dir, path, (IF Exists(dir, path) THEN Read(dir, path) ELSE <<>>) \o bytes)

\* line 134: echo '<chunk>' | base64 --decode >> '<dest>'
ApplyCommand(dir, c) == AppendTo(dir, c.dest, Base64Decode(c.chunk))

\* line 46, 199: the placeholder manifest
MOVE_TOML == <<0>>
MoveToml == <<"Move.toml">>

\* what rm, an append command or the manifest command may answer
StageOutcomes ==
    { Outcome(NoExit, <<>>, <<>>), Outcome(NoExit, <<>>, <<"e">>),
      Outcome(1, <<>>, <<"e">>) }

\* line 225, 240: the literal the publish output is searched for
SuccessMarker == <<"vm_status", ":", "Executed successfully">>

Executed == <<"{">> \o SuccessMarker \o <<"}">>
Aborted == <<"{", "vm_status", ":", "Aborted", "}">>

\* what `aptos move publish` may answer
PublishOutcomes ==
    { Outcome(NoExit, Executed, <<>>), Outcome(NoExit, Aborted, <<>>),
      Outcome(NoExit, <<>>, Executed), Outcome(0, Executed, <<>>),
      Outcome(1, <<>>, <<"e">>) }

PrivateKeys == {<<"k1">>, <<"k2">>}

\* the (source tree, signing key) pairs the callers use
Targets == {<<<<"p">>, <<"k1">>>>, <<<<"q">>, <<"k2">>>>}

\* path::absolute, line 184
Cwd == <<"/", "w">>
Absolute(d) == IF d # <<>> /\ Head(d) = "/" THEN d ELSE Cwd \o <<"/">> \o d

\* line 186: format!("{}:{}", private_key, absolute_contract_path)
ContractKey(key, d) == key \o <<":">> \o Absolute(d)

ContractKeys == {ContractKey(tg[2], tg[1]) : tg \in Targets}

\* the sub_packages a caller may pass
SubPackageLists == {None, Some(<<"s1", "s2">>)}

NoArgs == [dir |-> <<>>, key |-> <<>>, subs |-> None, ov |-> FALSE]

\* what one publish command publishes: the staging root, or a sub-package
Root == "."

\* ------------------------------------------------------------------- state
VARIABLES
    override_accounts,  \* Option<Vec<String>>, fixed at construction
    deploy_contract,    \* bool, fixed at construction
    accounts,           \* self.accounts: the roster
    rx,                 \* accounts_channel_rx is Some
    tx,                 \* accounts_channel_tx is Some
    chan,               \* the messages queued in the mpsc channel
    chanCap,            \* the capacity the channel was created with
    txWriter,           \* holder of accounts_channel_tx's write lock
    txReaders,          \* holders of accounts_channel_tx's read lock
    txQueue,            \* tasks waiting for accounts_channel_tx, FIFO
    rxHolder,           \* holder of accounts_channel_rx's mutex
    rxQueue,            \* tasks waiting for accounts_channel_rx, FIFO
    pc,                 \* where each task is
    op,                 \* the operation each task is in
    req,                \* number_of_accounts of the task's run
    vec,                \* the task's local Vec<String> `accounts`
    idx,                \* how many elements of vec the task's loop has sent
    cbResult,           \* what the task's callback returned
    ret,                \* what the task's last call returned
    seen,               \* the roster as it was when lazy_init_accounts returned Ok
    calls,              \* calls started so far
    queryCount,         \* roster queries executed so far
    seedCount,          \* channels created and seeded so far
    lastCmd,            \* the last run_command: its outcome and its result
    contracts,          \* self.contracts: the keys recorded as published
    ctHolder,           \* holder of self.contracts's mutex
    ctQueue,            \* tasks waiting for self.contracts, FIFO
    args,               \* the arguments of the task's upload_contracts
    cursor,             \* the task's position in its command or publish loop
    staged,             \* the keys an override=false call has gone on to stage
    published,          \* the (key, package) pairs a publish command succeeded for
    attempted,          \* the packages the task's call has run the publish tool for
    remote              \* the staging directory of the task's call, in the container

poolVars ==
    <<accounts, rx, tx, chan, chanCap, txWriter, txReaders, txQueue, rxHolder,
      rxQueue, req, vec, idx, cbResult, seen, queryCount, seedCount>>

configVars == <<override_accounts, deploy_contract, files>>

uploadVars ==
    <<contracts, ctHolder, ctQueue, args, cursor, staged, published, attempted,
      remote>>

vars ==
    <<override_accounts, deploy_contract, accounts, rx, tx, chan, chanCap,
      txWriter, txReaders, txQueue, rxHolder, rxQueue, pc, op, req, vec, idx,
      cbResult, ret, seen, calls, queryCount, seedCount, lastCmd, contracts,
      ctHolder, ctQueue, args, cursor, staged, published, attempted, files,
      remote>>

\* the record of one run_command: whether one was run at all, what the
\* container answered and what run_command returned
NoCmd ==
    [ran |-> FALSE, out |-> Outcome(NoExit, <<>>, <<>>),
     res |-> RunCommand(Outcome(NoExit, <<>>, <<>>))]

Cmd(o) == [ran |-> TRUE, out |-> o, res |-> RunCommand(o)]

\* AptosContainer::init, lines 279-316: a managed node deploys contracts and
\* has no fixed accounts; an external node comes with its account list.
Constructed ==
    /\ accounts = <<>>
    /\ rx = FALSE
    /\ tx = FALSE
    /\ chan = <<>>
    /\ chanCap = 0
    /\ txWriter = {}
    /\ txReaders = {}
    /\ txQueue = <<>>
    /\ rxHolder = {}
    /\ rxQueue = <<>>
    /\ pc = [t \in Tasks |-> "idle"]
    /\ op = [t \in Tasks |-> "none"]
    /\ req = [t \in Tasks |-> 0]
    /\ vec = [t \in Tasks |-> <<>>]
    /\ idx = [t \in Tasks |-> 0]
    /\ cbResult = [t \in Tasks |-> "none"]
    /\ ret = [t \in Tasks |-> "none"]
    /\ seen = [t \in Tasks |-> <<>>]
    /\ calls = 0
    /\ queryCount = 0
    /\ seedCount = 0
    /\ lastCmd = NoCmd
    /\ contracts = {}
    /\ ctHolder = {}
    /\ ctQueue = <<>>
    /\ args = [t \in Tasks |-> NoArgs]
    /\ cursor = [t \in Tasks |-> 0]
    /\ staged = {}
    /\ published = {}
    /\ attempted = [t \in Tasks |-> <<>>]
    /\ remote = [t \in Tasks |-> {}]

Init ==
    /\ \/ override_accounts = None /\ deploy_contract = TRUE
       \/ override_accounts = Some(FixedAccounts) /\ deploy_contract \in BOOLEAN
    /\ files = SourceTrees
    /\ Constructed

\* ------------------------------------------------------------- account pool
\* The accounts a task holds: leased (recv_many has returned them) and not
\* yet sent back by the release loop.
Held(t) ==
    IF ~override_accounts.some /\ pc[t] \in {"callback", "release_lock", "release"}
    THEN SubSeq(vec[t], idx[t] + 1, Len(vec[t]))
    ELSE <<>>

\* Where a caller of lazy_init_accounts goes once it has returned Ok:
\* back to its own caller, or on to lines 153-166 of run.
AfterInitOk(t, o) ==
    /\ seen' = [seen EXCEPT ![t] = accounts]
    /\ IF o = "init"
       THEN /\ pc' = [pc EXCEPT ![t] = "idle"]
            /\ op' = [op EXCEPT ![t] = "none"]
            /\ ret' = [ret EXCEPT ![t] = "ok"]
            /\ UNCHANGED <<vec, idx, rxQueue>>
       ELSE IF override_accounts.some
       THEN /\ pc' = [pc EXCEPT ![t] = "callback"]
            /\ op' = [op EXCEPT ![t] = o]
            /\ vec' = [vec EXCEPT ![t] = override_accounts.val]
            /\ idx' = [idx EXCEPT ![t] = 0]
            /\ UNCHANGED <<ret, rxQueue>>
       ELSE /\ pc' = [pc EXCEPT ![t] = "lease_lock"]
            /\ op' = [op EXCEPT ![t] = o]
            /\ rxQueue' = Append(rxQueue, t)
            /\ UNCHANGED <<ret, vec, idx>>

\* EnterInit without the early return of lines 77-79
EnterInitNoOverride(t, o) ==
    /\ pc' = [pc EXCEPT ![t] = "init_lock"]
    /\ op' = [op EXCEPT ![t] = o]
    /\ txQueue' = Append(txQueue, t)
    /\ UNCHANGED <<ret, vec, idx, rxQueue, seen>>

\* lines 76-81: the entry of lazy_init_accounts, up to the write().await
EnterInit(t, o) ==
    IF override_accounts.some
    THEN AfterInitOk(t, o) /\ UNCHANGED txQueue
    ELSE /\ pc' = [pc EXCEPT ![t] = "init_lock"]
         /\ op' = [op EXCEPT ![t] = o]
         /\ txQueue' = Append(txQueue, t)
         /\ UNCHANGED <<ret, vec, idx, rxQueue, seen>>

\* a task calls run(n, callback): line 151
StartRun(t, n) ==
    /\ pc[t] = "idle"
    /\ calls < MaxCalls
    /\ calls' = calls + 1
    /\ req' = [req EXCEPT ![t] = n]
    /\ cbResult' = [cbResult EXCEPT ![t] = "none"]
    /\ EnterInit(t, "run")
    /\ UNCHANGED <<configVars, uploadVars, accounts, rx, tx, chan, chanCap, txWriter,
                   txReaders, rxHolder, queryCount, seedCount, lastCmd>>

\* a task calls lazy_init_accounts itself
StartInit(t) ==
    /\ pc[t] = "idle"
    /\ calls < MaxCalls
    /\ calls' = calls + 1
    /\ req' = [req EXCEPT ![t] = 0]
    /\ cbResult' = [cbResult EXCEPT ![t] = "none"]
    /\ EnterInit(t, "init")
    /\ UNCHANGED <<configVars, uploadVars, accounts, rx, tx, chan, chanCap, txWriter,
                   txReaders, rxHolder, queryCount, seedCount, lastCmd>>

\* AcquireWrite without the `guard.is_some()` early return of lines 83-85
AcquireWriteNoCheck(t) ==
    /\ pc[t] = "init_lock"
    /\ txQueue # <<>> /\ Head(txQueue) = t
    /\ txWriter = {} /\ txReaders = {}
    /\ txQueue' = Tail(txQueue)
    /\ txWriter' = {t}
    /\ pc' = [pc EXCEPT ![t] = "init_cmd"]
    /\ UNCHANGED <<configVars, uploadVars, accounts, rx, tx, chan, chanCap, txReaders,
                   rxHolder, rxQueue, op, req, vec, idx, cbResult, ret, seen,
                   calls, queryCount, seedCount, lastCmd>>

\* lines 81-85: the write lock is granted; a published sender ends the call
AcquireWrite(t) ==
    /\ pc[t] = "init_lock"
    /\ txQueue # <<>> /\ Head(txQueue) = t
    /\ txWriter = {} /\ txReaders = {}
    /\ txQueue' = Tail(txQueue)
    /\ IF tx
       THEN AfterInitOk(t, op[t]) /\ UNCHANGED txWriter
       ELSE /\ txWriter' = {t}
            /\ pc' = [pc EXCEPT ![t] = "init_cmd"]
            /\ UNCHANGED <<op, ret, vec, idx, rxQueue, seen>>
    /\ UNCHANGED <<configVars, uploadVars, accounts, rx, tx, chan, chanCap, txReaders,
                   rxHolder, req, cbResult, calls, queryCount, seedCount,
                   lastCmd>>

\* InitCommand with the write guard kept when the query fails
InitCommandStuck(t, o) ==
    /\ pc[t] = "init_cmd"
    /\ queryCount' = queryCount + 1
    /\ lastCmd' = Cmd(o)
    /\ LET r == RunCommand(o) IN
       IF ~r.ok \/ r.stdout = <<>>
       THEN /\ pc' = [pc EXCEPT ![t] = "idle"]
            /\ op' = [op EXCEPT ![t] = "none"]
            /\ req' = [req EXCEPT ![t] = 0]
            /\ ret' = [ret EXCEPT ![t] = "err"]
            /\ UNCHANGED <<vec, idx, chan, chanCap, seedCount, txWriter>>
       ELSE /\ vec' = [vec EXCEPT ![t] = ParseAccounts(r.stdout)]
            /\ idx' = [idx EXCEPT ![t] = 0]
            /\ chan' = <<>>
            /\ chanCap' = Len(ParseAccounts(r.stdout))
            /\ seedCount' = seedCount + 1
            /\ pc' = [pc EXCEPT ![t] = "init_send"]
            /\ UNCHANGED <<op, req, ret, txWriter>>
    /\ UNCHANGED <<configVars, uploadVars, accounts, rx, tx, txReaders, txQueue, rxHolder,
                   rxQueue, cbResult, seen, calls>>

\* InitCommand creating the channel one slot short of the roster
InitCommandSmall(t, o) ==
    /\ pc[t] = "init_cmd"
    /\ queryCount' = queryCount + 1
    /\ lastCmd' = Cmd(o)
    /\ LET r == RunCommand(o) IN
       IF ~r.ok \/ r.stdout = <<>>
       THEN /\ txWriter' = txWriter \ {t}
            /\ pc' = [pc EXCEPT ![t] = "idle"]
            /\ op' = [op EXCEPT ![t] = "none"]
            /\ req' = [req EXCEPT ![t] = 0]
            /\ ret' = [ret EXCEPT ![t] = "err"]
            /\ UNCHANGED <<vec, idx, chan, chanCap, seedCount>>
       ELSE /\ vec' = [vec EXCEPT ![t] = ParseAccounts(r.stdout)]
            /\ idx' = [idx EXCEPT ![t] = 0]
            /\ chan' = <<>>
            /\ chanCap' = Len(ParseAccounts(r.stdout)) - 1
            /\ seedCount' = seedCount + 1
            /\ pc' = [pc EXCEPT ![t] = "init_send"]
            /\ UNCHANGED <<op, req, ret, txWriter>>
    /\ UNCHANGED <<configVars, uploadVars, accounts, rx, tx, txReaders, txQueue, rxHolder,
                   rxQueue, cbResult, seen, calls>>

\* lines 87-102: the roster query, the parse and the creation of the channel
InitCommand(t, o) ==
    /\ pc[t] = "init_cmd"
    /\ queryCount' = queryCount + 1
    /\ lastCmd' = Cmd(o)
    /\ LET r == RunCommand(o) IN
       IF ~r.ok \/ r.stdout = <<>>
       THEN /\ txWriter' = txWriter \ {t}
            /\ pc' = [pc EXCEPT ![t] = "idle"]
            /\ op' = [op EXCEPT ![t] = "none"]
            /\ req' = [req EXCEPT ![t] = 0]
            /\ ret' = [ret EXCEPT ![t] = "err"]
            /\ UNCHANGED <<vec, idx, chan, chanCap, seedCount>>
       ELSE /\ vec' = [vec EXCEPT ![t] = ParseAccounts(r.stdout)]
            /\ idx' = [idx EXCEPT ![t] = 0]
            /\ chan' = <<>>
            /\ chanCap' = Len(ParseAccounts(r.stdout))
            /\ seedCount' = seedCount + 1
            /\ pc' = [pc EXCEPT ![t] = "init_send"]
            /\ UNCHANGED <<op, req, ret, txWriter>>
    /\ UNCHANGED <<configVars, uploadVars, accounts, rx, tx, txReaders, txQueue, rxHolder,
                   rxQueue, cbResult, seen, calls>>

\* lines 103-105: one tx.send(account).await of the seeding loop
InitSend(t) ==
    /\ pc[t] = "init_send"
    /\ idx[t] < Len(vec[t])
    /\ Len(chan) < chanCap
    /\ chan' = Append(chan, vec[t][idx[t] + 1])
    /\ idx' = [idx EXCEPT ![t] = idx[t] + 1]
    /\ UNCHANGED <<configVars, uploadVars, accounts, rx, tx, chanCap, txWriter, txReaders,
                   txQueue, rxHolder, rxQueue, pc, op, req, vec, cbResult, ret,
                   seen, calls, queryCount, seedCount, lastCmd>>

\* InitSetAccounts publishing the sender with the roster, before the receiver
InitSetAccountsPublish(t) ==
    /\ pc[t] = "init_send"
    /\ idx[t] = Len(vec[t])
    /\ accounts' = vec[t]
    /\ tx' = TRUE
    /\ pc' = [pc EXCEPT ![t] = "init_rx"]
    /\ UNCHANGED <<configVars, uploadVars, rx, chan, chanCap, txWriter, txReaders,
                   txQueue, rxHolder, rxQueue, op, req, vec, idx, cbResult, ret,
                   seen, calls, queryCount, seedCount, lastCmd>>

\* line 106
InitSetAccounts(t) ==
    /\ pc[t] = "init_send"
    /\ idx[t] = Len(vec[t])
    /\ accounts' = vec[t]
    /\ pc' = [pc EXCEPT ![t] = "init_rx"]
    /\ UNCHANGED <<configVars, uploadVars, rx, tx, chan, chanCap, txWriter, txReaders,
                   txQueue, rxHolder, rxQueue, op, req, vec, idx, cbResult, ret,
                   seen, calls, queryCount, seedCount, lastCmd>>

\* line 107
InitSetRx(t) ==
    /\ pc[t] = "init_rx"
    /\ rxHolder = {} /\ rxQueue = <<>>
    /\ rx' = TRUE
    /\ pc' = [pc EXCEPT ![t] = "init_tx"]
    /\ UNCHANGED <<configVars, uploadVars, accounts, tx, chan, chanCap, txWriter, txReaders,
                   txQueue, rxHolder, rxQueue, op, req, vec, idx, cbResult, ret,
                   seen, calls, queryCount, seedCount, lastCmd>>

\* lines 108-109: the sender is published and the write guard dropped
InitSetTx(t) ==
    /\ pc[t] = "init_tx"
    /\ tx' = TRUE
    /\ txWriter' = txWriter \ {t}
    /\ AfterInitOk(t, op[t])
    /\ UNCHANGED <<configVars, uploadVars, accounts, rx, chan, chanCap, txReaders, txQueue,
                   rxHolder, req, cbResult, calls, queryCount, seedCount,
                   lastCmd>>

\* lines 157-159: the receiver's mutex is granted
AcquireRx(t) ==
    /\ pc[t] = "lease_lock"
    /\ rxQueue # <<>> /\ Head(rxQueue) = t
    /\ rxHolder = {}
    /\ rxQueue' = Tail(rxQueue)
    /\ rxHolder' = {t}
    /\ pc' = [pc EXCEPT ![t] = IF rx THEN "recv" ELSE "panic"]
    /\ UNCHANGED <<configVars, uploadVars, accounts, rx, tx, chan, chanCap, txWriter,
                   txReaders, txQueue, op, req, vec, idx, cbResult, ret, seen,
                   calls, queryCount, seedCount, lastCmd>>

\* RecvMany copying the queued accounts instead of removing them
RecvManyPeek(t) ==
    /\ pc[t] = "recv"
    /\ req[t] = 0 \/ chan # <<>>
    /\ vec' = [vec EXCEPT ![t] = SubSeq(chan, 1, Min(req[t], Len(chan)))]
    /\ idx' = [idx EXCEPT ![t] = 0]
    /\ rxHolder' = rxHolder \ {t}
    /\ pc' = [pc EXCEPT ![t] = "callback"]
    /\ UNCHANGED <<configVars, uploadVars, accounts, rx, tx, chan, chanCap, txWriter,
                   txReaders, txQueue, rxQueue, op, req, cbResult, ret, seen,
                   calls, queryCount, seedCount, lastCmd>>

\* RecvMany with the receiver's mutex guard kept once the accounts are leased
RecvManyKeepGuard(t) ==
    /\ pc[t] = "recv"
    /\ req[t] = 0 \/ chan # <<>>
    /\ LET k == Min(req[t], Len(chan)) IN
       /\ vec' = [vec EXCEPT ![t] = SubSeq(chan, 1, k)]
       /\ chan' = SubSeq(chan, k + 1, Len(chan))
    /\ idx' = [idx EXCEPT ![t] = 0]
    /\ pc' = [pc EXCEPT ![t] = "callback"]
    /\ UNCHANGED <<configVars, uploadVars, accounts, rx, tx, chanCap, txWriter, txReaders,
                   txQueue, rxHolder, rxQueue, op, req, cbResult, ret, seen, calls,
                   queryCount, seedCount, lastCmd>>

\* lines 160-165: recv_many(&mut result, n) returns at once when n = 0, and
\* otherwise as soon as the channel holds a message, with the messages it
\* holds then, at most n of them; the mutex guard is dropped with it.
RecvMany(t) ==
    /\ pc[t] = "recv"
    /\ req[t] = 0 \/ chan # <<>>
    /\ LET k == Min(req[t], Len(chan)) IN
       /\ vec' = [vec EXCEPT ![t] = SubSeq(chan, 1, k)]
       /\ chan' = SubSeq(chan, k + 1, Len(chan))
    /\ idx' = [idx EXCEPT ![t] = 0]
    /\ rxHolder' = rxHolder \ {t}
    /\ pc' = [pc EXCEPT ![t] = "callback"]
    /\ UNCHANGED <<configVars, uploadVars, accounts, rx, tx, chanCap, txWriter, txReaders,
                   txQueue, rxQueue, op, req, cbResult, ret, seen, calls,
                   queryCount, seedCount, lastCmd>>

\* Callback with the error propagated at once (`callback(..).await?`), so
\* that a failing callback skips the release loop
CallbackEarlyReturn(t, ok) ==
    /\ pc[t] = "callback"
    /\ cbResult' = [cbResult EXCEPT ![t] = IF ok THEN "ok" ELSE "err"]
    /\ IF override_accounts.some \/ ~ok
       THEN /\ pc' = [pc EXCEPT ![t] = "idle"]
            /\ op' = [op EXCEPT ![t] = "none"]
            /\ req' = [req EXCEPT ![t] = 0]
            /\ ret' = [ret EXCEPT ![t] = IF ok THEN "ok" ELSE "err"]
            /\ vec' = [vec EXCEPT ![t] = <<>>]
            /\ UNCHANGED txQueue
       ELSE /\ pc' = [pc EXCEPT ![t] = "release_lock"]
            /\ txQueue' = Append(txQueue, t)
            /\ UNCHANGED <<op, req, ret, vec>>
    /\ UNCHANGED <<configVars, uploadVars, accounts, rx, tx, chan, chanCap, txWriter,
                   txReaders, rxHolder, rxQueue, idx, seen, calls,
                   queryCount, seedCount, lastCmd>>

\* lines 168-171: the callback completes with Ok or Err
Callback(t, ok) ==
    /\ pc[t] = "callback"
    /\ cbResult' = [cbResult EXCEPT ![t] = IF ok THEN "ok" ELSE "err"]
    /\ IF override_accounts.some
       THEN /\ pc' = [pc EXCEPT ![t] = "idle"]
            /\ op' = [op EXCEPT ![t] = "none"]
            /\ req' = [req EXCEPT ![t] = 0]
            /\ ret' = [ret EXCEPT ![t] = IF ok THEN "ok" ELSE "err"]
            /\ vec' = [vec EXCEPT ![t] = <<>>]
            /\ UNCHANGED txQueue
       ELSE /\ pc' = [pc EXCEPT ![t] = "release_lock"]
            /\ txQueue' = Append(txQueue, t)
            /\ UNCHANGED <<op, req, ret, vec>>
    /\ UNCHANGED <<configVars, uploadVars, accounts, rx, tx, chan, chanCap, txWriter,
                   txReaders, rxHolder, rxQueue, idx, seen, calls,
                   queryCount, seedCount, lastCmd>>

\* line 171: the read lock is granted
AcquireRead(t) ==
    /\ pc[t] = "release_lock"
    /\ txQueue # <<>> /\ Head(txQueue) = t
    /\ txWriter = {}
    /\ txQueue' = Tail(txQueue)
    /\ txReaders' = txReaders \cup {t}
    /\ pc' = [pc EXCEPT ![t] = "release"]
    /\ UNCHANGED <<configVars, uploadVars, accounts, rx, tx, chan, chanCap, txWriter,
                   rxHolder, rxQueue, op, req, vec, idx, cbResult, ret, seen,
                   calls, queryCount, seedCount, lastCmd>>

\* ReleaseSend sending the first leased account at every turn of the loop
ReleaseSendFirst(t) ==
    /\ pc[t] = "release"
    /\ idx[t] < Len(vec[t])
    /\ Len(chan) < chanCap
    /\ chan' = Append(chan, vec[t][1])
    /\ idx' = [idx EXCEPT ![t] = idx[t] + 1]
    /\ UNCHANGED <<configVars, uploadVars, accounts, rx, tx, chanCap, txWriter, txReaders,
                   txQueue, rxHolder, rxQueue, pc, op, req, vec, cbResult, ret,
                   seen, calls, queryCount, seedCount, lastCmd>>

\* lines 172-174: one send(account).await of the release loop
ReleaseSend(t) ==
    /\ pc[t] = "release"
    /\ idx[t] < Len(vec[t])
    /\ Len(chan) < chanCap
    /\ chan' = Append(chan, vec[t][idx[t] + 1])
    /\ idx' = [idx EXCEPT ![t] = idx[t] + 1]
    /\ UNCHANGED <<configVars, uploadVars, accounts, rx, tx, chanCap, txWriter, txReaders,
                   txQueue, rxHolder, rxQueue, pc, op, req, vec, cbResult, ret,
                   seen, calls, queryCount, seedCount, lastCmd>>

\* lines 175-176: the read guard is dropped and the callback's result returned
ReleaseDone(t) ==
    /\ pc[t] = "release"
    /\ idx[t] = Len(vec[t])
    /\ txReaders' = txReaders \ {t}
    /\ pc' = [pc EXCEPT ![t] = "idle"]
    /\ ret' = [ret EXCEPT ![t] = cbResult[t]]
    /\ op' = [op EXCEPT ![t] = "none"]
    /\ req' = [req EXCEPT ![t] = 0]
    /\ vec' = [vec EXCEPT ![t] = <<>>]
    /\ idx' = [idx EXCEPT ![t] = 0]
    /\ UNCHANGED <<configVars, uploadVars, accounts, rx, tx, chan, chanCap, txWriter,
                   txQueue, rxHolder, rxQueue, cbResult, seen, calls,
                   queryCount, seedCount, lastCmd>>

NextPool ==
    \E t \in Tasks :
        \/ \E n \in RequestSizes : StartRun(t, n)
        \/ StartInit(t)
        \/ AcquireWrite(t)
        \/ \E o \in RosterOutcomes : InitCommand(t, o)
        \/ InitSend(t)
        \/ InitSetAccounts(t)
        \/ InitSetRx(t)
        \/ InitSetTx(t)
        \/ AcquireRx(t)
        \/ RecvMany(t)
        \/ \E ok \in BOOLEAN : Callback(t, ok)
        \/ AcquireRead(t)
        \/ ReleaseSend(t)
        \/ ReleaseDone(t)

SpecPool == Init /\ [][NextPool]_vars

\* The steps of a call once it has been made. The runtime polls every task
\* that is ready, a command of the container returns and a callback returns:
\* a step that stays possible is eventually taken.
Progress(t) ==
    \/ AcquireWrite(t)
    \/ \E o \in RosterOutcomes : InitCommand(t, o)
    \/ InitSend(t)
    \/ InitSetAccounts(t)
    \/ InitSetRx(t)
    \/ InitSetTx(t)
    \/ AcquireRx(t)
    \/ RecvMany(t)
    \/ \E ok \in BOOLEAN : Callback(t, ok)
    \/ AcquireRead(t)
    \/ ReleaseSend(t)
    \/ ReleaseDone(t)

SpecPoolFair == SpecPool /\ \A t \in Tasks : WF_vars(Progress(t))

\* ------------------------------------------------- deployment cache, publisher
KeyOf(t) == ContractKey(args[t].key, args[t].dir)

\* the packages a call names: the staging root, or its sub-packages
Packages(subs) == IF subs.some THEN Range(subs.val) ELSE {Root}

Uploading(t) == pc[t] \in {"stage_rm", "stage_chunk", "manifest", "publish"}

\* UploadFail with the key recorded before the commands are known to have
\* succeeded, so that a failed call leaves it in the cache
UploadFailPoison(t) ==
    /\ pc' = [pc EXCEPT ![t] = "idle"]
    /\ op' = [op EXCEPT ![t] = "none"]
    /\ ret' = [ret EXCEPT ![t] = "err"]
    /\ args' = [args EXCEPT ![t] = NoArgs]
    /\ cursor' = [cursor EXCEPT ![t] = 0]
    /\ ctHolder' = ctHolder \ {t}
    /\ contracts' = contracts \cup {KeyOf(t)}

\* a `?` or ensure! of upload_contracts or copy_contracts returns the error:
\* the guard is dropped, the cache is left as it is
UploadFail(t) ==
    /\ pc' = [pc EXCEPT ![t] = "idle"]
    /\ op' = [op EXCEPT ![t] = "none"]
    /\ ret' = [ret EXCEPT ![t] = "err"]
    /\ args' = [args EXCEPT ![t] = NoArgs]
    /\ cursor' = [cursor EXCEPT ![t] = 0]
    /\ ctHolder' = ctHolder \ {t}
    /\ UNCHANGED contracts

\* lines 250-251: the key is inserted, the guard dropped and Ok returned
UploadFinish(t) ==
    /\ pc' = [pc EXCEPT ![t] = "idle"]
    /\ op' = [op EXCEPT ![t] = "none"]
    /\ ret' = [ret EXCEPT ![t] = "ok"]
    /\ args' = [args EXCEPT ![t] = NoArgs]
    /\ cursor' = [cursor EXCEPT ![t] = 0]
    /\ ctHolder' = ctHolder \ {t}
    /\ contracts' = contracts \cup {KeyOf(t)}

\* the call goes on to its next command
UploadGoto(t, where, c) ==
    /\ pc' = [pc EXCEPT ![t] = where]
    /\ cursor' = [cursor EXCEPT ![t] = c]
    /\ UNCHANGED <<op, ret, args, ctHolder, contracts>>

\* line 143: copy_contracts, called by itself, returns the staging directory
CopyReturn(t) ==
    /\ pc' = [pc EXCEPT ![t] = "idle"]
    /\ op' = [op EXCEPT ![t] = "none"]
    /\ ret' = [ret EXCEPT ![t] = "ok"]
    /\ args' = [args EXCEPT ![t] = NoArgs]
    /\ cursor' = [cursor EXCEPT ![t] = 0]
    /\ UNCHANGED <<ctHolder, contracts>>

\* The staging directory of an upload_contracts that has returned is never
\* used again, the one copy_contracts returns is its caller's.
Staging(t, dir) ==
    remote' = [remote EXCEPT ![t] =
                  IF op[t] = "upload" /\ pc'[t] = "idle" THEN {} ELSE dir]

\* lines 196-217, once copy_contracts has returned: the manifest when no
\* sub-package is given, else the first publish, if there is one
AfterCopy(t) ==
    IF op[t] = "copy"
    THEN CopyReturn(t)
    ELSE IF ~args[t].subs.some
    THEN UploadGoto(t, "manifest", 0)
    ELSE IF args[t].subs.val = <<>>
    THEN UploadFinish(t)
    ELSE UploadGoto(t, "publish", 1)

\* StartUpload without the early return of lines 180-182
StartUploadAlways(t, d, k, subs, ov) ==
    /\ pc[t] = "idle"
    /\ calls < MaxCalls
    /\ calls' = calls + 1
    /\ pc' = [pc EXCEPT ![t] = "up_lock"]
    /\ op' = [op EXCEPT ![t] = "upload"]
    /\ args' = [args EXCEPT ![t] =
                    [dir |-> d, key |-> k, subs |-> subs, ov |-> ov]]
    /\ ctQueue' = Append(ctQueue, t)
    /\ attempted' = [attempted EXCEPT ![t] = <<>>]
    /\ remote' = [remote EXCEPT ![t] = {}]
    /\ UNCHANGED <<configVars, poolVars, ret, lastCmd, contracts, ctHolder, cursor,
                   staged, published>>

\* a task calls upload_contracts: lines 179-188, up to the lock().await
StartUpload(t, d, k, subs, ov) ==
    /\ pc[t] = "idle"
    /\ calls < MaxCalls
    /\ calls' = calls + 1
    /\ IF ~deploy_contract
       THEN /\ ret' = [ret EXCEPT ![t] = "ok"]
            /\ UNCHANGED <<pc, op, args, ctQueue, attempted, remote>>
       ELSE /\ pc' = [pc EXCEPT ![t] = "up_lock"]
            /\ op' = [op EXCEPT ![t] = "upload"]
            /\ args' = [args EXCEPT ![t] =
                            [dir |-> d, key |-> k, subs |-> subs, ov |-> ov]]
            /\ ctQueue' = Append(ctQueue, t)
            /\ attempted' = [attempted EXCEPT ![t] = <<>>]
            /\ remote' = [remote EXCEPT ![t] = {}]
            /\ UNCHANGED ret
    /\ UNCHANGED <<configVars, poolVars, lastCmd, contracts, ctHolder, cursor,
                   staged, published>>

\* AcquireContracts with the guard dropped once the membership check is done
AcquireContractsUnlocked(t) ==
    /\ pc[t] = "up_lock"
    /\ ctQueue # <<>> /\ Head(ctQueue) = t
    /\ ctHolder = {}
    /\ ctQueue' = Tail(ctQueue)
    /\ IF ~args[t].ov /\ KeyOf(t) \in contracts
       THEN /\ pc' = [pc EXCEPT ![t] = "idle"]
            /\ op' = [op EXCEPT ![t] = "none"]
            /\ ret' = [ret EXCEPT ![t] = "ok"]
            /\ args' = [args EXCEPT ![t] = NoArgs]
            /\ UNCHANGED staged
       ELSE /\ pc' = [pc EXCEPT ![t] = "stage_rm"]
            /\ staged' = IF args[t].ov THEN staged ELSE staged \cup {KeyOf(t)}
            /\ UNCHANGED <<op, ret, args>>
    /\ UNCHANGED <<configVars, poolVars, calls, lastCmd, contracts, ctHolder,
                   cursor, published, attempted, remote>>

\* AcquireContracts with the membership check made whatever override_contract is
AcquireContractsNoOverride(t) ==
    /\ pc[t] = "up_lock"
    /\ ctQueue # <<>> /\ Head(ctQueue) = t
    /\ ctHolder = {}
    /\ ctQueue' = Tail(ctQueue)
    /\ IF KeyOf(t) \in contracts
       THEN /\ pc' = [pc EXCEPT ![t] = "idle"]
            /\ op' = [op EXCEPT ![t] = "none"]
            /\ ret' = [ret EXCEPT ![t] = "ok"]
            /\ args' = [args EXCEPT ![t] = NoArgs]
            /\ UNCHANGED <<ctHolder, staged>>
       ELSE /\ ctHolder' = {t}
            /\ pc' = [pc EXCEPT ![t] = "stage_rm"]
            /\ staged' = IF args[t].ov THEN staged ELSE staged \cup {KeyOf(t)}
            /\ UNCHANGED <<op, ret, args>>
    /\ UNCHANGED <<configVars, poolVars, calls, lastCmd, contracts, cursor,
                   published, attempted, remote>>

\* AcquireContracts with one lock per contract key: a call waits only for
\* a call that holds the guard for the same key
AcquireContractsPerKey(t) ==
    /\ pc[t] = "up_lock"
    /\ t \in Range(ctQueue)
    /\ \A h \in ctHolder : KeyOf(h) # KeyOf(t)
    /\ ctQueue' = SelectSeq(ctQueue, LAMBDA x : x # t)
    /\ IF ~args[t].ov /\ KeyOf(t) \in contracts
       THEN /\ pc' = [pc EXCEPT ![t] = "idle"]
            /\ op' = [op EXCEPT ![t] = "none"]
            /\ ret' = [ret EXCEPT ![t] = "ok"]
            /\ args' = [args EXCEPT ![t] = NoArgs]
            /\ UNCHANGED <<ctHolder, staged>>
       ELSE /\ ctHolder' = ctHolder \cup {t}
            /\ pc' = [pc EXCEPT ![t] = "stage_rm"]
            /\ staged' = IF args[t].ov THEN staged ELSE staged \cup {KeyOf(t)}
            /\ UNCHANGED <<op, ret, args>>
    /\ UNCHANGED <<configVars, poolVars, calls, lastCmd, contracts, cursor,
                   published, attempted, remote>>

\* lines 188-191: the mutex is granted; a cached key ends a call that does
\* not override, any other call goes on to copy_contracts holding the guard
AcquireContracts(t) ==
    /\ pc[t] = "up_lock"
    /\ ctQueue # <<>> /\ Head(ctQueue) = t
    /\ ctHolder = {}
    /\ ctQueue' = Tail(ctQueue)
    /\ IF ~args[t].ov /\ KeyOf(t) \in contracts
       THEN /\ pc' = [pc EXCEPT ![t] = "idle"]
            /\ op' = [op EXCEPT ![t] = "none"]
            /\ ret' = [ret EXCEPT ![t] = "ok"]
            /\ args' = [args EXCEPT ![t] = NoArgs]
            /\ UNCHANGED <<ctHolder, staged>>
       ELSE /\ ctHolder' = {t}
            /\ pc' = [pc EXCEPT ![t] = "stage_rm"]
            /\ staged' = IF args[t].ov THEN staged ELSE staged \cup {KeyOf(t)}
            /\ UNCHANGED <<op, ret, args>>
    /\ UNCHANGED <<configVars, poolVars, calls, lastCmd, contracts, cursor,
                   published, attempted, remote>>

\* a task calls copy_contracts itself: lines 112-117
StartCopy(t, d) ==
    /\ pc[t] = "idle"
    /\ calls < MaxCalls
    /\ calls' = calls + 1
    /\ pc' = [pc EXCEPT ![t] = "stage_rm"]
    /\ op' = [op EXCEPT ![t] = "copy"]
    /\ args' = [args EXCEPT ![t] = [NoArgs EXCEPT !.dir = d]]
    /\ remote' = [remote EXCEPT ![t] = {}]
    /\ UNCHANGED <<configVars, poolVars, ret, lastCmd, contracts, ctHolder, ctQueue,
                   cursor, staged, published, attempted>>

\* lines 117-119: rm -rf of the fresh staging directory
StageRm(t, o) ==
    /\ pc[t] = "stage_rm"
    /\ lastCmd' = Cmd(o)
    /\ LET r == RunCommand(o) IN
       IF ~r.ok \/ r.stderr # <<>>
       THEN UploadFail(t)
       ELSE IF ChunkCommands(args[t].dir) = <<>>
       THEN AfterCopy(t)
       ELSE UploadGoto(t, "stage_chunk", 1)
    /\ Staging(t, IF Cmd(o).res.ok THEN {} ELSE remote[t])
    /\ UNCHANGED <<configVars, poolVars, calls, ctQueue, staged, published,
                   attempted>>

\* StageChunk writing each chunk over the file (`>` for `>>`)
StageChunkOverwrite(t, o) ==
    /\ pc[t] = "stage_chunk"
    /\ lastCmd' = Cmd(o)
    /\ LET r == RunCommand(o) IN
       IF ~r.ok \/ r.stderr # <<>>
       THEN UploadFail(t)
       ELSE IF cursor[t] = Len(ChunkCommands(args[t].dir))
       THEN AfterCopy(t)
       ELSE UploadGoto(t, "stage_chunk", cursor[t] + 1)
    /\ LET c == ChunkCommands(args[t].dir)[cursor[t]] IN
       Staging(t, IF Cmd(o).res.ok
                  THEN Write(remote[t], c.dest, Base64Decode(c.chunk))
                  ELSE remote[t])
    /\ UNCHANGED <<configVars, poolVars, calls, ctQueue, staged, published,
                   attempted>>

\* lines 133-140: one append command of the staging loop
StageChunk(t, o) ==
    /\ pc[t] = "stage_chunk"
    /\ lastCmd' = Cmd(o)
    /\ LET r == RunCommand(o) IN
       IF ~r.ok \/ r.stderr # <<>>
       THEN UploadFail(t)
       ELSE IF cursor[t] = Len(ChunkCommands(args[t].dir))
       THEN AfterCopy(t)
       ELSE UploadGoto(t, "stage_chunk", cursor[t] + 1)
    /\ Staging(t, IF Cmd(o).res.ok
                  THEN ApplyCommand(remote[t], ChunkCommands(args[t].dir)[cursor[t]])
                  ELSE remote[t])
    /\ UNCHANGED <<configVars, poolVars, calls, ctQueue, staged, published,
                   attempted>>

\* lines 198-209: the placeholder Move.toml
Manifest(t, o) ==
    /\ pc[t] = "manifest"
    /\ lastCmd' = Cmd(o)
    /\ LET r == RunCommand(o) IN
       IF ~r.ok \/ r.stderr # <<>>
       THEN UploadFail(t)
       ELSE UploadGoto(t, "publish", 1)
    /\ Staging(t, IF Cmd(o).res.ok
                  THEN Write(remote[t], MoveToml, MOVE_TOML)
                  ELSE remote[t])
    /\ UNCHANGED <<configVars, poolVars, calls, ctQueue, staged, published,
                   attempted>>

\* Publish going on to the next sub-package when one fails
PublishContinue(t, o) ==
    /\ pc[t] = "publish"
    /\ lastCmd' = Cmd(o)
    /\ LET r == RunCommand(o)
           pkg == IF args[t].subs.some THEN args[t].subs.val[cursor[t]] ELSE Root
           last == ~args[t].subs.some \/ cursor[t] = Len(args[t].subs.val)
       IN
       /\ attempted' = [attempted EXCEPT ![t] = Append(attempted[t], pkg)]
       /\ IF ~r.ok \/ ~Contains(r.stdout, SuccessMarker)
          THEN /\ UNCHANGED published
               /\ IF last
                  THEN UploadFail(t)
                  ELSE UploadGoto(t, "publish", cursor[t] + 1)
          ELSE /\ published' = published \cup {<<KeyOf(t), pkg>>}
               /\ IF last
                  THEN UploadFinish(t)
                  ELSE UploadGoto(t, "publish", cursor[t] + 1)
    /\ Staging(t, remote[t])
    /\ UNCHANGED <<configVars, poolVars, calls, ctQueue, staged>>

\* lines 217-251: one publish command, of the staging root or of the next
\* sub-package; the last one to succeed ends the call
Publish(t, o) ==
    /\ pc[t] = "publish"
    /\ lastCmd' = Cmd(o)
    /\ LET r == RunCommand(o)
           pkg == IF args[t].subs.some THEN args[t].subs.val[cursor[t]] ELSE Root
       IN
       /\ attempted' = [attempted EXCEPT ![t] = Append(attempted[t], pkg)]
       /\ IF ~r.ok \/ ~Contains(r.stdout, SuccessMarker)
          THEN UploadFail(t) /\ UNCHANGED published
          ELSE /\ published' = published \cup {<<KeyOf(t), pkg>>}
               /\ IF ~args[t].subs.some \/ cursor[t] = Len(args[t].subs.val)
                  THEN UploadFinish(t)
                  ELSE UploadGoto(t, "publish", cursor[t] + 1)
    /\ Staging(t, remote[t])
    /\ UNCHANGED <<configVars, poolVars, calls, ctQueue, staged>>

NextUpload ==
    \E t \in Tasks :
        \/ \E tg \in Targets, subs \in SubPackageLists, ov \in BOOLEAN :
              StartUpload(t, tg[1], tg[2], subs, ov)
        \/ AcquireContracts(t)
        \/ \E o \in StageOutcomes : StageRm(t, o)
        \/ \E o \in StageOutcomes : StageChunk(t, o)
        \/ \E o \in StageOutcomes : Manifest(t, o)
        \/ \E o \in PublishOutcomes : Publish(t, o)

SpecUpload == Init /\ [][NextUpload]_vars

\* ------------------------------------------------------------ copy_contracts
\* the bytes and the lengths of the file contents copied
Bytes == {77, 255}
MaxBytes == 4

RECURSIVE SeqsUpTo(_, _)
SeqsUpTo(S, n) ==
    IF n = 0 THEN {<<>>}
    ELSE LET shorter == SeqsUpTo(S, n - 1)
         IN  shorter \cup {Append(q, x) : q \in {r \in shorter : Len(r) = n - 1}, x \in S}

Contents == SeqsUpTo(Bytes, MaxBytes)

\* a managed fixture whose first source tree holds one file of any content
InitCopy ==
    /\ override_accounts = None /\ deploy_contract = TRUE
    /\ \E c \in Contents :
          files = [SourceTrees EXCEPT ![<<"p">>] = << [path |-> <<"m">>, content |-> c] >>]
    /\ Constructed

NextCopy ==
    \E t \in Tasks :
        \/ \E d \in Dirs : StartCopy(t, d)
        \/ \E o \in StageOutcomes : StageRm(t, o)
        \/ \E o \in StageOutcomes : StageChunk(t, o)

SpecCopy == InitCopy /\ [][NextCopy]_vars

Next == NextPool \/ NextUpload \/ NextCopy

Spec == Init /\ [][Next]_vars

\* ------------------------------------------------------- account pool: claims
Managed == ~override_accounts.some

Leasing(t) == pc[t] \in {"callback", "release_lock", "release"}

PastInit(t) == pc[t] \in {"lease_lock", "recv", "callback", "release_lock", "release"}

RECURSIVE HeldCount(_, _)
HeldCount(a, S) ==
    IF S = {}
    THEN 0
    ELSE LET t == CHOOSE x \in S : TRUE
         IN  Count(a, Held(t)) + HeldCount(a, S \ {t})

AccountIds ==
    Range(accounts) \cup Range(chan) \cup UNION {Range(vec[t]) : t \in Tasks}

\* C1: in managed mode with a roster of distinct account ids, the accounts
\* held by two different tasks between their lease and their release are
\* disjoint at every moment.
C1_DisjointLeases ==
    (Managed /\ tx /\ IsDistinct(accounts)) =>
        \A t1, t2 \in Tasks :
            t1 # t2 => Range(Held(t1)) \cap Range(Held(t2)) = {}

\* two tasks hold accounts of a distinct roster at the same time
C1_Witness ==
    /\ Managed /\ tx /\ IsDistinct(accounts)
    /\ \E t1, t2 \in Tasks :
          /\ t1 # t2
          /\ Leasing(t1) /\ Held(t1) # <<>>
          /\ Leasing(t2) /\ Held(t2) # <<>>

\* C2: in managed mode, a lease of n accounts (1 <= n <= roster size, the
\* roster's ids distinct) hands the callback exactly n distinct account ids,
\* never fewer.
C2_LeaseExactlyN ==
    \A t \in Tasks :
        ( /\ Managed /\ IsDistinct(accounts)
          /\ pc[t] = "callback"
          /\ 1 <= req[t] /\ req[t] <= Len(accounts) )
        => (Len(vec[t]) = req[t] /\ IsDistinct(vec[t]))

\* C3: once the sender is published, the accounts queued in the channel
\* together with the accounts held by the tasks are the roster, as multisets.
C3_Conservation ==
    (Managed /\ tx) =>
        \A a \in AccountIds :
            Count(a, chan) + HeldCount(a, Tasks) = Count(a, accounts)

\* the pool is Ready, some accounts are queued and some are held
C3_Witness ==
    /\ Managed /\ tx /\ chan # <<>>
    /\ \E t \in Tasks : Leasing(t) /\ Held(t) # <<>>
    /\ \E t \in Tasks : pc[t] = "release" /\ 0 < idx[t] /\ idx[t] < Len(vec[t])

\* C4: run returns the callback's own result, Ok or Err, and when no run is
\* between its lease and its return the channel holds the whole roster: each
\* leased account has been sent back exactly once.
C4_ReleaseAlways ==
    /\ \A t \in Tasks :
          (pc[t] = "idle" /\ cbResult[t] # "none") => ret[t] = cbResult[t]
    /\ (Managed /\ tx /\ \A t \in Tasks : pc[t] \notin {"callback", "release_lock", "release"})
          => \A a \in AccountIds : Count(a, chan) = Count(a, accounts)

\* every run has returned, one of them with its callback's error, and the
\* queue holds the roster again, in another order than it was seeded in
C4_Witness ==
    /\ Managed /\ tx
    /\ \A t \in Tasks : pc[t] = "idle"
    /\ \E t \in Tasks : cbResult[t] = "err" /\ ret[t] = "err"
    /\ Len(chan) = Len(accounts)
    /\ chan # accounts

\* C5 as stated: the roster query is executed exactly once and the queue
\* seeded exactly once, however many tasks call lazy_init_accounts.
C5_QueryExactlyOnce ==
    /\ queryCount <= 1
    /\ seedCount <= 1
    /\ tx => (queryCount = 1 /\ seedCount = 1)

\* C5 as amended: the roster query succeeds at most once and no query is
\* executed after it has succeeded, the queue is seeded exactly once by the
\* time the sender is published, and every task for which
\* lazy_init_accounts returned Ok observes the same, fully populated roster;
\* a query that fails leaves the pool uninitialised and is repeated by the
\* next caller.
C5_InitOnce ==
    /\ [](/\ seedCount <= 1
          /\ tx => seedCount = 1
          /\ Managed =>
                \A t \in Tasks :
                    (PastInit(t) \/ (pc[t] = "idle" /\ ret[t] = "ok"))
                    => (tx /\ accounts # <<>> /\ seen[t] = accounts))
    /\ [][seedCount >= 1 => queryCount' = queryCount]_vars

\* two tasks have been through lazy_init_accounts and the query ran once
C5_Witness ==
    /\ Managed /\ tx /\ queryCount = 1 /\ seedCount = 1
    /\ \E t1, t2 \in Tasks :
          /\ t1 # t2
          /\ pc[t1] = "idle" /\ ret[t1] = "ok" /\ seen[t1] = accounts
          /\ pc[t2] = "idle" /\ ret[t2] = "ok" /\ seen[t2] = accounts

\* ------------------------------------------------- deployment cache: claims
\* the step in which task t's upload_contracts takes the mutex
Checks(t) == pc[t] = "up_lock" /\ pc'[t] # "up_lock"

\* the step in which task t's upload_contracts returns after running commands
Returns(t) == Uploading(t) /\ pc'[t] = "idle"

\* the step in which task t's upload_contracts returns Ok without a command
ShortCircuits(t) ==
    /\ pc[t] = "up_lock" /\ pc'[t] = "idle" /\ ret'[t] = "ok"
    /\ lastCmd' = lastCmd /\ published' = published /\ contracts' = contracts

\* C6 as stated: calls with the same key and override=false run the staging
\* and publish commands once in total: such a call never goes on to stage a
\* key that an earlier such call has already gone on to stage.
C6_StagedOnce ==
    [][\A t \in Tasks :
          (Checks(t) /\ ~args[t].ov /\ pc'[t] = "stage_rm")
          => KeyOf(t) \notin staged]_vars

\* C6 as amended: calls with the same key and override=false run the staging
\* and publish commands once in total provided the first of them to run the
\* commands succeeds; a call whose commands fail leaves the key out of the
\* cache and the next call runs them again. In every case the membership
\* check and the insertion are one critical section: no two calls stage or
\* publish the same key at the same time, an override=false call runs its
\* commands only while the key is absent from the cache, and once the key
\* is cached every override=false call for it returns Ok without a command.
C6_OncePerSuccess ==
    /\ [](\A t \in Tasks :
             (Uploading(t) /\ ~args[t].ov) => KeyOf(t) \notin contracts)
    /\ [](\A t1, t2 \in Tasks :
             (t1 # t2 /\ Uploading(t1) /\ Uploading(t2))
             => KeyOf(t1) # KeyOf(t2))
    /\ [][\A t \in Tasks :
             (Checks(t) /\ ~args[t].ov /\ KeyOf(t) \in contracts)
             => ShortCircuits(t)]_vars

\* a call with override=false is about to make the membership check for a
\* key that an earlier override=false call has staged, published and cached
C6_Witness ==
    \E t \in Tasks :
        /\ pc[t] = "up_lock" /\ ~args[t].ov
        /\ ctHolder = {} /\ Head(ctQueue) = t
        /\ KeyOf(t) \in staged /\ KeyOf(t) \in contracts
        /\ \E s \in Packages(args[t].subs) : <<KeyOf(t), s>> \in published

\* C7: the cache changes only in the step that ends a call whose last
\* publish command succeeded, all of its packages being published, and by
\* the insertion of that call's key; a call that returns an error leaves
\* the cache as it was, and an override=false call for a key that is not
\* cached goes on to stage it.
C7_InsertOnlyOnSuccess ==
    [][/\ contracts' # contracts
          => \E t \in Tasks :
                /\ pc[t] = "publish" /\ Returns(t) /\ ret'[t] = "ok"
                /\ contracts' = contracts \cup {KeyOf(t)}
                /\ lastCmd'.res.ok
                /\ Contains(lastCmd'.res.stdout, SuccessMarker)
                /\ \A s \in Packages(args[t].subs) :
                      <<KeyOf(t), s>> \in published'
       /\ \A t \in Tasks :
             (Returns(t) /\ ret'[t] = "err") => contracts' = contracts
       /\ \A t \in Tasks :
             (Checks(t) /\ ~args[t].ov /\ KeyOf(t) \notin contracts)
             => pc'[t] = "stage_rm"]_vars

\* a call has staged a key and failed in its second publish command, and
\* the key is not cached
C7_Witness ==
    /\ lastCmd.ran /\ lastCmd.out.stdout = Aborted /\ lastCmd.res.ok
    /\ \E t \in Tasks : pc[t] = "idle" /\ ret[t] = "err"
    /\ \E k \in staged :
          /\ k \notin contracts
          /\ <<k, "s1">> \in published

\* C8: a call with override=true goes on to stage and publish whether or
\* not its key is cached; it inserts the key when its last publish command
\* succeeds and leaves the cache as it was when a command fails; a key once
\* cached stays cached, so that later override=false calls for it return Ok
\* without a command.
C8_Override ==
    [][/\ \A t \in Tasks :
             (Checks(t) /\ args[t].ov) => pc'[t] = "stage_rm"
       /\ \A t \in Tasks :
             (Returns(t) /\ args[t].ov)
             => IF ret'[t] = "ok"
                THEN /\ pc[t] = "publish"
                     /\ Contains(lastCmd'.res.stdout, SuccessMarker)
                     /\ KeyOf(t) \in contracts'
                ELSE contracts' = contracts
       /\ contracts \subseteq contracts'
       /\ \A t \in Tasks :
             (Checks(t) /\ ~args[t].ov /\ KeyOf(t) \in contracts)
             => ShortCircuits(t)]_vars

\* a call with override=true is publishing a key that is already cached
C8_Witness ==
    \E t \in Tasks :
        pc[t] = "publish" /\ args[t].ov /\ KeyOf(t) \in contracts

\* C9: a call with override=false returns Ok only when every package it
\* names has been published for its signing key and source path.
C9_PerSubPackage ==
    [][\A t \in Tasks :
          (op[t] = "upload" /\ ~args[t].ov /\ pc'[t] = "idle" /\ ret'[t] = "ok")
          => \A s \in Packages(args[t].subs) :
                <<KeyOf(t), s>> \in published']_vars

\* ------------------------------------------------- command channel: claims
\* C10: run_command fails exactly when the command reports a non-zero exit
\* code, and with exit code zero it succeeds and returns both streams whole.
C10_ExitCode ==
    lastCmd.ran =>
        /\ ~lastCmd.res.ok <=> lastCmd.out.exit \notin {NoExit, 0}
        /\ lastCmd.out.exit = 0 =>
              /\ lastCmd.res.ok
              /\ lastCmd.res.stdout = lastCmd.out.stdout
              /\ lastCmd.res.stderr = lastCmd.out.stderr

\* ------------------------------------------------- account pool: liveness
WaitingToLease(t) ==
    /\ Managed /\ op[t] = "run" /\ pc[t] \in {"lease_lock", "recv"}
    /\ req[t] <= Len(accounts)

Queries(t) == pc[t] = "init_cmd" /\ pc'[t] # "init_cmd"

Uninitialized ==
    /\ accounts = <<>> /\ ~rx /\ ~tx /\ chan = <<>> /\ chanCap = 0
    /\ txWriter = {}

\* C12: a roster query that prints nothing makes lazy_init_accounts fail
\* and leaves the pool uninitialised, with the write lock free: no roster,
\* no sender, no receiver, nothing queued. The run that made the query
\* returns the error without a lease and without its callback, and the next
\* caller to take the write lock queries again.
C12_EmptyRosterFails ==
    /\ [][\A t \in Tasks :
             (Queries(t) /\ lastCmd'.res.ok /\ lastCmd'.res.stdout = <<>>)
             => /\ pc'[t] = "idle" /\ ret'[t] = "err"
                /\ cbResult'[t] = "none"
                /\ vec'[t] = vec[t] /\ chan' = chan
                /\ Uninitialized']_vars
    /\ [][\A t \in Tasks :
             (pc[t] = "init_lock" /\ pc'[t] # "init_lock" /\ Uninitialized)
             => pc'[t] = "init_cmd"]_vars

\* a run has failed on an empty roster output, its callback never called,
\* and a later call is making the query again
C12_Witness ==
    /\ lastCmd.ran /\ lastCmd.res.ok /\ lastCmd.res.stdout = <<>>
    /\ queryCount = 1 /\ ~tx /\ ~rx /\ accounts = <<>>
    /\ \E t1, t2 \in Tasks :
          /\ pc[t1] = "idle" /\ ret[t1] = "err" /\ cbResult[t1] = "none"
          /\ pc[t2] = "init_cmd" /\ op[t2] = "run"

\* ------------------------------------------------- account pool: fixed list
\* C13: with a fixed account list configured, no roster query is ever run
\* and no channel created; the roster, the sender and the receiver stay as
\* constructed and no lock of the pool is taken or waited for; every run is
\* either not started or in its callback, which was passed the whole fixed
\* list whatever number of accounts was asked for.
C13_OverrideStateless ==
    override_accounts.some =>
        /\ queryCount = 0 /\ seedCount = 0 /\ ~lastCmd.ran
        /\ accounts = <<>> /\ ~rx /\ ~tx /\ chan = <<>> /\ chanCap = 0
        /\ txWriter = {} /\ txReaders = {} /\ txQueue = <<>>
        /\ rxHolder = {} /\ rxQueue = <<>>
        /\ \A t \in Tasks :
              /\ pc[t] \in {"idle", "callback"}
              /\ pc[t] = "callback" => vec[t] = override_accounts.val
              /\ Held(t) = <<>>

\* two runs that asked for different numbers of accounts are in their
\* callbacks at the same time, each with the whole fixed list
C13_Witness ==
    /\ override_accounts.some
    /\ \E t1, t2 \in Tasks :
          /\ t1 # t2 /\ req[t1] = 0 /\ req[t2] > Len(override_accounts.val)
          /\ pc[t1] = "callback" /\ vec[t1] = override_accounts.val
          /\ pc[t2] = "callback" /\ vec[t2] = override_accounts.val

\* ------------------------------------------------- deployment cache: no deploy
\* C14: when the fixture is configured not to deploy contracts, every
\* upload_contracts call, whatever its arguments, returns Ok in the step
\* that makes it: no command is ever run, the mutex is never taken or
\* waited for and the cache stays empty.
C14_NoDeployNoOp ==
    /\ [](~deploy_contract =>
             /\ ~lastCmd.ran /\ contracts = {} /\ staged = {} /\ published = {}
             /\ ctHolder = {} /\ ctQueue = <<>>
             /\ \A t \in Tasks : pc[t] = "idle" /\ ret[t] \in {"none", "ok"})
    /\ [][(~deploy_contract /\ calls' # calls)
             => \E t \in Tasks :
                   /\ ret'[t] = "ok" /\ pc' = pc
                   /\ contracts' = contracts /\ lastCmd' = lastCmd]_vars

\* every task of a fixture that does not deploy has had a call return Ok
C14_Witness ==
    /\ ~deploy_contract /\ calls = MaxCalls
    /\ \A t \in Tasks : pc[t] = "idle" /\ ret[t] = "ok"
    /\ contracts = {} /\ ~lastCmd.ran

\* ------------------------------------------------- publisher: order of publish
\* the packages a call publishes, in the order the code takes them
PackageList(subs) == IF subs.some THEN subs.val ELSE <<Root>>

\* the step in which task t's call runs the publish tool
Publishes(t) == pc[t] = "publish" /\ attempted'[t] # attempted[t]

\* the publish command just run was judged a success by the call
Judged == lastCmd'.res.ok /\ Contains(lastCmd'.res.stdout, SuccessMarker)

\* C15: a call runs the publish tool for the packages it names in list
\* order, one at a time (the staging root alone when no list is given), each
\* only after the previous one succeeded and only once staging is over;
\* when one fails the call returns the error and runs the tool for no
\* further package, and when the last one succeeds the call returns Ok.
C15_PublishInOrder ==
    /\ [](\A t \in Tasks :
             /\ pc[t] \in {"up_lock", "stage_rm", "stage_chunk", "manifest"}
                   => attempted[t] = <<>>
             /\ pc[t] = "publish"
                   => /\ Len(attempted[t]) < Len(PackageList(args[t].subs))
                      /\ attempted[t]
                            = SubSeq(PackageList(args[t].subs), 1, Len(attempted[t]))
                      /\ \A i \in DOMAIN attempted[t] :
                            <<KeyOf(t), attempted[t][i]>> \in published)
    /\ [][\A t \in Tasks :
             /\ Publishes(t)
                   => /\ attempted'[t]
                            = SubSeq(PackageList(args[t].subs), 1, Len(attempted[t]) + 1)
                      /\ IF ~Judged
                         THEN pc'[t] = "idle" /\ ret'[t] = "err"
                         ELSE IF Len(attempted'[t]) = Len(PackageList(args[t].subs))
                         THEN pc'[t] = "idle" /\ ret'[t] = "ok"
                         ELSE pc'[t] = "publish"
             /\ attempted'[t] # attempted[t]
                   => (pc[t] = "publish" \/ attempted'[t] = <<>>)]_vars

\* one call has published its first sub-package and failed on the second,
\* another has published the first and is about to run the second
C15_Witness ==
    \E t1, t2 \in Tasks :
        /\ pc[t1] = "idle" /\ ret[t1] = "err" /\ attempted[t1] = <<"s1", "s2">>
        /\ pc[t2] = "publish" /\ args[t2].subs = Some(<<"s1", "s2">>)
        /\ attempted[t2] = <<"s1">>

\* ------------------------------------------------- publisher: success marker
\* C16: a publish command is judged by its combined output, stdout together
\* with stderr: the call treats it as a success when the marker occurs in
\* that output and as a failure when it does not, whatever the exit code.
C16_CombinedOutput ==
    [][\A t \in Tasks :
          Publishes(t)
          => LET combined == lastCmd'.out.stdout \o lastCmd'.out.stderr
                 failed == pc'[t] = "idle" /\ ret'[t] = "err"
             IN  Contains(combined, SuccessMarker) <=> ~failed]_vars

\* ------------------------------------------------- copy_contracts: round trip
IsPrefix(a, b) == Len(a) <= Len(b) /\ a = SubSeq(b, 1, Len(a))

\* what a read of the remote file yields, nothing when it is absent
RemoteContent(dir, path) == IF Exists(dir, path) THEN Read(dir, path) ELSE <<>>

Copying(t) == op[t] = "copy" /\ pc[t] \in {"stage_rm", "stage_chunk"}

\* C17: the staging directory holds files of the local tree only and, while
\* the chunk commands of a call are issued, each remote file is a prefix of
\* its local file; every chunk command only appends to the remote files;
\* and when copy_contracts returns Ok, every chunk command having
\* succeeded, each remote file read back is byte for byte its local file,
\* whatever the length of its content (a file of no bytes, for which no
\* command is issued, is absent and reads back as no bytes).
C17_ChunkRoundTrip ==
    /\ [](\A t \in Tasks :
             Copying(t) =>
                /\ \A r \in remote[t] :
                      \E f \in Range(DirFiles(args[t].dir)) : f.path = r.path
                /\ \A f \in Range(DirFiles(args[t].dir)) :
                      IsPrefix(RemoteContent(remote[t], f.path), f.content))
    /\ [][\A t \in Tasks :
             /\ (pc[t] = "stage_chunk" /\ op[t] = "copy")
                   => \A f \in Range(DirFiles(args[t].dir)) :
                         IsPrefix(RemoteContent(remote[t], f.path),
                                  RemoteContent(remote'[t], f.path))
             /\ (Copying(t) /\ pc'[t] = "idle" /\ ret'[t] = "ok")
                   => /\ \A f \in Range(DirFiles(args[t].dir)) :
                            RemoteContent(remote'[t], f.path) = f.content
                      /\ \A r \in remote'[t] :
                            \E f \in Range(DirFiles(args[t].dir)) :
                               f.path = r.path]_vars

\* copy_contracts has returned Ok for a file whose encoded content took
\* more than one chunk, and the remote file is the local file
C17_Witness ==
    \E t \in Tasks :
        /\ pc[t] = "idle" /\ ret[t] = "ok"
        /\ \E f \in Range(DirFiles(<<"p">>)) :
              /\ Len(Base64Encode(f.content)) > CONTENT_MAX_CHARS
              /\ [path |-> f.path, content |-> f.content] \in remote[t]

\* ------------------------------------------------- account pool: linearised init
\* C18: whenever the sender is published the roster is populated, the
\* receiver is present and the channel was created and seeded once; the
\* step that publishes the sender leaves the queue holding exactly the
\* roster, which is the whole parsed output of the query; a task past the
\* initialisation step of run finds the sender, the receiver and that
\* roster, never a missing receiver; and once the sender is published the
\* roster, the sender and the receiver are never replaced.
C18_InitLinearized ==
    /\ [](tx => /\ rx /\ accounts # <<>>
                /\ seedCount = 1 /\ chanCap = Len(accounts))
    /\ [](\A t \in Tasks :
             /\ pc[t] # "panic"
             /\ (Managed /\ PastInit(t))
                   => (tx /\ rx /\ accounts # <<>> /\ seen[t] = accounts))
    /\ [][(~tx /\ tx')
             => /\ chan' = accounts'
                /\ accounts' = ParseAccounts(lastCmd'.res.stdout)]_vars
    /\ [][tx => (tx' /\ rx' /\ accounts' = accounts /\ chanCap' = chanCap)]_vars

\* the sender has just been published over the seeded queue: one task is
\* past the initialisation step of its run while another still waits for
\* the write lock
C18_Witness ==
    /\ Managed /\ tx /\ rx /\ chan = accounts /\ Len(accounts) > 1
    /\ \E t1, t2 \in Tasks :
          /\ pc[t1] = "lease_lock" /\ seen[t1] = accounts
          /\ pc[t2] = "init_lock"

\* ------------------------------------------------- deployment cache: one at a time
\* C19: a call that is staging or publishing holds the mutex of the cache,
\* so at most one upload_contracts is in its staging or publish phase at a
\* time, whatever the keys and the override flags of the calls; a command
\* is run only by the call that holds the mutex, which it took at its
\* membership check and gives back only when it returns.
C19_OneUploadAtATime ==
    /\ [](\A t \in Tasks : Uploading(t) => ctHolder = {t})
    /\ [](Cardinality({t \in Tasks : Uploading(t)}) <= 1)
    /\ [][\A t \in Tasks :
             /\ lastCmd' # lastCmd => \E h \in Tasks : Uploading(h) /\ ctHolder = {h}
             /\ (ctHolder = {t} /\ ctHolder' # {t})
                   => (pc'[t] = "idle" /\ ctHolder' = {})]_vars

\* a call is publishing while a call with another key and override=true
\* waits for the mutex
C19_Witness ==
    \E t1, t2 \in Tasks :
        /\ pc[t1] = "publish" /\ ctHolder = {t1}
        /\ pc[t2] = "up_lock" /\ args[t2].ov
        /\ KeyOf(t1) # KeyOf(t2)

\* ------------------------------------------------- account pool: capacity
\* a task is at a send of the seeding loop or of the release loop
Sending(t) == pc[t] \in {"init_send", "release"} /\ idx[t] < Len(vec[t])

\* C20: the channel is created with room for the whole roster and never
\* holds more account ids than that; whenever a task is at a send, of the
\* seeding loop or of the release loop, the channel has a free slot, so
\* that no send ever waits.
C20_SendNeverBlocks ==
    Managed =>
        /\ Len(chan) <= chanCap
        /\ tx => chanCap = Len(accounts)
        /\ \A t \in Tasks :
              /\ pc[t] = "init_send" => chanCap = Len(vec[t])
              /\ Sending(t) => Len(chan) < chanCap

\* a release is at the send that fills the channel to its capacity
C20_Witness ==
    /\ Managed /\ tx /\ chanCap > 1
    /\ \E t \in Tasks :
          /\ pc[t] = "release" /\ idx[t] < Len(vec[t])
          /\ Len(chan) = chanCap - 1

====
